---- MODULE Spec2Model ----
(***************************************************************************)
(* Model of src/translator.py: the loaders, the summary extractors, the    *)
(* two frame assemblers and main()'s split / merge / write sequence.       *)
(*                                                                         *)
(* Text.  A Python str is the record [l, b, r]: l leading blanks, the body *)
(* b (a string that neither starts nor ends with whitespace) and r         *)
(* trailing blanks; a str of n blanks only is [l |-> n, b |-> "", r |-> 0].*)
(* Concatenation joins the bodies with the blanks between them, so two     *)
(* records are equal exactly when the strs are.  str.strip() clears l and  *)
(* r.  String literals of the source are ASCII here: the em dash is "--",  *)
(* the en dash "-", the almost-equal sign "~", the multiplication sign "x",*)
(* the right arrow "->" and the typographic apostrophe "'".  The only       *)
(* whitespace the inputs hold is the blank.                                *)
(*                                                                         *)
(* A line of the decision note, which load_decision takes apart, is a      *)
(* sequence of tokens: " ", "-", ":" or a word holding none of the three.  *)
(***************************************************************************)
EXTENDS Integers, Sequences, FiniteSets, TLC

VARIABLES pc, seq, pict, decision, rationale, txt12, txt7,
          dual_start_12, merged_12, dual_start_7, merged_7, files

vars == << pc, seq, pict, decision, rationale, txt12, txt7,
           dual_start_12, merged_12, dual_start_7, merged_7, files >>

\* ---------------------------------------------------------------- bounds
\* Lines of a decision note after its first line.
MaxRationale == 2
\* Entries of the longest operator histogram.
MaxHist == 7

\* ------------------------------------------------------------------ text
E == [l |-> 0, b |-> "", r |-> 0]

S(t) == [l |-> 0, b |-> t, r |-> 0]

\* A literal with n leading and m trailing blanks around the text t.
L(n, t, m) == [l |-> n, b |-> t, r |-> m]

RECURSIVE Spaces(_)
Spaces(n) == IF n = 0 THEN "" ELSE " " \o Spaces(n - 1)

\* x + y
Cat(x, y) ==
    IF x.b = ""
    THEN IF y.b = "" THEN [l |-> x.l + y.l, b |-> "", r |-> 0]
                     ELSE [l |-> x.l + y.l, b |-> y.b, r |-> y.r]
    ELSE IF y.b = "" THEN [l |-> x.l, b |-> x.b, r |-> x.r + y.l]
                     ELSE [l |-> x.l, b |-> x.b \o Spaces(x.r + y.l) \o y.b, r |-> y.r]

RECURSIVE CatAll(_)
CatAll(xs) == IF xs = << >> THEN E ELSE Cat(Head(xs), CatAll(Tail(xs)))

\* sep.join(xs)
RECURSIVE join(_, _)
join(sep, xs) ==
    IF xs = << >> THEN E
    ELSE IF Len(xs) = 1 THEN xs[1]
    ELSE Cat(Cat(xs[1], sep), join(sep, Tail(xs)))

\* x.strip()
strip(x) == [l |-> 0, b |-> x.b, r |-> 0]

\* not x.strip()
IsBlank(x) == strip(x) = E

Range(xs) == { xs[i] : i \in 1..Len(xs) }

Min(a, b) == IF a < b THEN a ELSE b

\* dict.get(key, default)
Get(d, key, default) == IF key \in DOMAIN d THEN d[key] ELSE default

EmptyDict == [k \in {} |-> E]

\* ------------------------------------------------------------- constants
OUT_12 == "/mnt/data/f1r_translation_12key.txt"
OUT_7 == "/mnt/data/f1r_translation_7step.txt"
OUT_12_LAB == "/mnt/data/f1r_translation_12key_lab.txt"
OUT_12_SPIR == "/mnt/data/f1r_translation_12key_spirit.txt"
OUT_12_MERGE == "/mnt/data/f1r_translation_12key_merged.txt"
OUT_12_TRANSL == "/mnt/data/f1r_translation_12key_translation.txt"
OUT_7_LAB == "/mnt/data/f1r_translation_7step_lab.txt"
OUT_7_SPIR == "/mnt/data/f1r_translation_7step_spirit.txt"
OUT_7_MERGE == "/mnt/data/f1r_translation_7step_merged.txt"
OUT_7_TRANSL == "/mnt/data/f1r_translation_7step_translation.txt"

\* Default of top_ops_hist's parameter k.
K == 6

SEVEN_STEPS == S("7_STEPS_OPERATOR")

COMPARATIVE == S("7_STEPS_OPERATOR (comparative)")

UNKNOWN == S("UNKNOWN")

Q == S("?")

DualReading == S("Dual Reading:")

SpiritualParallel == S("Spiritual Parallel:")

\* --------------------------------------------------------------- loaders
\* The note's tokens as a str.
TokStr(tok) == IF tok = " " THEN L(1, "", 0) ELSE S(tok)

RECURSIVE Text(_)
Text(toks) == IF toks = << >> THEN E ELSE Cat(TokStr(Head(toks)), Text(Tail(toks)))

\* toks.strip(chars): the tokens without the leading and trailing ones in chars.
RECURSIVE LStripToks(_, _)
LStripToks(toks, chars) ==
    IF toks # << >> /\ Head(toks) \in chars THEN LStripToks(Tail(toks), chars) ELSE toks

RECURSIVE RStripToks(_, _)
RStripToks(toks, chars) ==
    IF toks # << >> /\ toks[Len(toks)] \in chars
    THEN RStripToks(SubSeq(toks, 1, Len(toks) - 1), chars)
    ELSE toks

StripToks(toks, chars) == RStripToks(LStripToks(toks, chars), chars)

\* word.lower(), over the words the notes are written with.
Lower(w) ==
    CASE w = "Decision" -> "decision"
      [] w = "DECISION" -> "decision"
      [] OTHER -> w

\* head.lower().startswith("decision:")
StartsWithDecision(head) == Len(head) >= 2 /\ Lower(head[1]) = "decision" /\ head[2] = ":"

\* The non-empty ln.strip("- ").strip() of the lines, in their order.
RECURSIVE RationaleOf(_)
RationaleOf(lines) ==
    IF lines = << >> THEN << >>
    ELSE LET ln == StripToks(StripToks(Head(lines), {"-", " "}), {" "})
         IN  (IF ln # << >> THEN << Text(ln) >> ELSE << >>) \o RationaleOf(Tail(lines))

\* load_decision: << dec, rationale >> of a note [exists, lines].
load_decision(note) ==
    IF ~note.exists THEN << UNKNOWN, << >> >>
    ELSE IF note.lines = << >> THEN << UNKNOWN, << >> >>
    ELSE LET head == StripToks(note.lines[1], {" "})
             dec  == IF StartsWithDecision(head)
                     THEN Text(StripToks(SubSeq(head, 3, Len(head)), {" "}))
                     ELSE UNKNOWN
         IN  << dec, RationaleOf(Tail(note.lines)) >>

\* load_pict: the first row of the table, or the empty dict.
load_pict(rows) == IF rows # << >> THEN rows[1] ELSE EmptyDict

\* ------------------------------------------------------------ extractors
\* A non-empty str is true.
Truthy(v) == v # E

\* leaves_of without the lookup of leaf_groups_count.
leaves_of_drop_first(p) ==
    IF "leaf_pairs_count" \in DOMAIN p /\ Truthy(p["leaf_pairs_count"])
    THEN p["leaf_pairs_count"]
    ELSE Q

\* pict.get("leaf_groups_count") or pict.get("leaf_pairs_count") or "?"
leaves_of(p) ==
    IF "leaf_groups_count" \in DOMAIN p /\ Truthy(p["leaf_groups_count"])
    THEN p["leaf_groups_count"]
    ELSE IF "leaf_pairs_count" \in DOMAIN p /\ Truthy(p["leaf_pairs_count"])
    THEN p["leaf_pairs_count"]
    ELSE Q

\* << roots, leaves, buds, bud_state, bud_color >>
phrase_counts(p) ==
    << Get(p, "roots_count", Q),
       leaves_of(p),
       Get(p, "bud_count", Q),
       Get(p, "bud_state", Q),
       Get(p, "bud_colour", Q) >>

\* f"{op}x{ct}" for the first k entries of the histogram.
top_ops_hist(seq_data, k) ==
    LET hist == Get(seq_data, "operator_histogram", << >>)
    IN  [i \in 1..Min(k, Len(hist)) |-> CatAll(<< hist[i][1], S("x"), S(ToString(hist[i][2])) >>)]

\* The snapshot line of both frames.
Snapshot(seq_data, p) ==
    LET c   == phrase_counts(p)
        ops == join(L(0, ",", 1), top_ops_hist(seq_data, K))
    IN  CatAll(<< S("Snapshot: roots="), c[1], S(", leaves~"), c[2], S(", buds="), c[3],
                  L(1, "(", 0), c[4], S("/"), c[5], L(0, "); frequent ops:", 1), ops >>)

\* "Decision rationale: " + "; ".join(rationale)
RationaleLine(rat) == Cat(L(0, "Decision rationale:", 1), join(L(0, ";", 1), rat))

\* The list make_12key extends t with: adjacent literals are one element.
Body12 ==
    << S("Step 1 -- Vessel & Naming"),
       S("Dual Reading:"),
       S("The vessel is both the physical flask and the soul's container. Invocation awakens both the material and the self to the alchemical journey."),
       E,
       S("The division marks not only chemical partition but the mystical separation of ego and essence."),
       E,
       S("Dissolution serves to cleanse material and purify the inner self through surrender."),
       E,
       S("Distillation echoes the ascent of spirit; impurities fall away in both lab and life."),
       E,
       S("Conjunction reflects union: Sulphur and Mercury, masculine and feminine, body and soul."),
       E,
       S("Nigredo symbolizes the dark night of the soul; the blackening before rebirth."),
       E,
       S("Albedo washes the psyche clean; Luna's light reveals the purified spirit."),
       E,
       S("Citrinitas is the dawning awareness; Mars forges willpower in transformation."),
       E,
       S("Rubedo completes the cycle: the alchemist becomes the Stone."),
       E,
       S("Planetary forces don't just guide reactions--they govern stages of inner development."),
       E,
       S("Circulation mirrors breath, prayer, and meditation: the Work is not linear."),
       E,
       S("The seal closes not only a flask, but also a rite. Completion blesses both craft and soul."),
       S("The matter is named and bound in its vessel. The root marks the body (Salt), fixed under Saturn's weight. Invocation is repeated in glyphs (e.g., daiin) and leaf pairing, sealing the beginning of the work."),
       E,
       S("Step 2 -- Division"),
       S("The one is divided into twain and thrice: leaf pairs show duality, triplets imply the tria prima. Repetitions (daiin/aiin) and fixatives (chedy) portion the matter."),
       E,
       S("Step 3 -- Dissolution"),
       S("Stems and loops mark circulation and washing. Tokens like shol/chor indicate solve in water; the matter is softened and set apart."),
       E,
       S("Step 4 -- Distillation"),
       S("Droplet-like signs and repeated shody/qokedy patterns suggest distillation. Vapour rises and returns as dew; the subtle is separated from the gross."),
       E,
       S("Step 5 -- Conjunction"),
       S("Two buds appear, closed then opening: Sulphur unites with Mercury. Conjunction signs (cfhol) and daiin repetitions confirm the aim."),
       E,
       S("Step 6 -- Black Phase (Nigredo)"),
       S("Darkness of the root signals nigredo. The body putrefies; successive shody seals fix the stage."),
       E,
       S("Step 7 -- White Phase (Albedo)"),
       S("Leaves pale; east-west orientation encodes invocation and washing. Luna presides; the spirit clarifies."),
       E,
       S("Step 8 -- Yellow Phase (Citrinitas)"),
       S("Intermediate yellowing under Mars's heat prepares perfection. Iterative forms (chedy, cthar) track cycles."),
       E,
       S("Step 9 -- Red Phase (Rubedo)"),
       S("The two red buds are the clearest cipher: open and red = Rubedo, the crown of the Work. Sol governs completion."),
       E,
       S("Step 10 -- Planetary Governance"),
       S("Saturn delays, Mars heats, Luna moistens, Sol perfects; leaf direction hints Air and Water. Planetary order binds the phases."),
       E,
       S("Step 11 -- Circulation & Return"),
       S("Cycles of daiin, shol, chor command: solve -> coagula -> fix. Vapours rise and fall; leaf pairs confirm counts (2, 3, 7)."),
       E,
       S("Step 12 -- Seal & Completion"),
       S("Final y-terminations act as seals. With buds now red/open, the final conjunction is declared: the Work is closed and fixed.") >>

\* The list make_7step extends t with.
Body7 ==
    << S("1) Name & Bind -- Identify the matter, bind in the vessel, open the cycle with invocations (daiin)."),
       S("Spiritual Parallel:"),
       S("1) The name calls the soul to action; the vessel holds intent."),
       S("2) Separation defines inner conflict; parts must know themselves."),
       S("3) Washing purifies ego; flow liberates spirit."),
       S("4) Distilling refines insight; vapor rises, truth condenses."),
       S("5) Union heals duality; opposites embrace."),
       S("6) Fixing grounds the Self; realization stabilizes the soul."),
       S("7) Rubedo crowns the seeker; the Work completes with wisdom."),
       S("2) Divide & Portion -- Split into halves/thirds; assign portions; chedy marks fixation points."),
       S("3) Solve -- Wash/circulate (shol/chor); soften and separate."),
       S("4) Distil -- Raise and return the subtle (shody/qokedy); condense as dew."),
       S("5) Conjoin -- Recombine fractions (cfhol) under measured heat."),
       S("6) Fix -- Seal interim results (y endings), weigh against root heaviness (Saturn)."),
       S("7) Perfect -- Advance through colours to red; crown under Sol; close with a final seal.") >>

\* ------------------------------------------------------ frame assemblers
make_12key(seq_data, p, dec, rat) ==
    << S("Translation of f1r -- Twelve Keys (Allegorical)"), S("--"), Snapshot(seq_data, p) >>
    \o (IF rat # << >> THEN << RationaleLine(rat) >> ELSE << >>)
    \o << E >>
    \o Body12

make_7step(seq_data, p, dec, rat) ==
    << S("Translation of f1r -- Seven-Step Operator Cycle"), S("--"), Snapshot(seq_data, p) >>
    \o (IF rat # << >> THEN << RationaleLine(rat) >> ELSE << >>)
    \o << E >>
    \o Body7

\* select_7step with the note's rationale on both branches.
select_7step_always_rationale(seq_data, p, dec, rat) == make_7step(seq_data, p, dec, rat)

\* main's choice of the short frame's arguments.
select_7step(seq_data, p, dec, rat) ==
    IF dec = SEVEN_STEPS
    THEN make_7step(seq_data, p, dec, rat)
    ELSE make_7step(seq_data, p, COMPARATIVE, << >>)

\* ------------------------------------------------------- split and merge
\* xs.index(x), and -1 where Python raises ValueError.
Index(xs, x) ==
    IF x \in Range(xs)
    THEN (CHOOSE i \in 1..Len(xs) : xs[i] = x /\ \A j \in 1..(i - 1) : xs[j] # x) - 1
    ELSE -1

\* txt[:d]
head_of(txt, d) == SubSeq(txt, 1, d)

\* tail_of as txt[d:], the marker line included.
tail_of_from_marker(txt, d) == SubSeq(txt, d + 1, Len(txt))

\* txt[d+1:]
tail_of(txt, d) == SubSeq(txt, d + 2, Len(txt))

lstrip(x) == IF x.b = "" THEN E ELSE [l |-> 0, b |-> x.b, r |-> x.r]

rstrip(x) == IF x.b = "" THEN E ELSE [l |-> x.l, b |-> x.b, r |-> 0]

\* The lines of "\n".join(lines): no line is the same text as one empty line.
joined(lines) == IF lines = << >> THEN << E >> ELSE lines

\* The lines of "\n".join(lines).strip(): the whitespace-only lines at both ends
\* go, and the blanks that start the first and end the last line left.
strip_joined(lines) ==
    LET solid == { i \in 1..Len(lines) : ~IsBlank(lines[i]) }
    IN  IF solid = {} THEN << E >>
        ELSE LET a == CHOOSE i \in solid : \A j \in solid : i <= j
                 z == CHOOSE i \in solid : \A j \in solid : j <= i
             IN  [i \in 1..(z - a + 1) |->
                    LET x == lines[a + i - 1]
                        y == IF i = 1 THEN lstrip(x) ELSE x
                    IN  IF i = z - a + 1 THEN rstrip(y) ELSE y]

\* merge_pair without the tests: every pair is joined.
merge_pair_unconditional(op, sp) == << CatAll(<< strip(op), L(1, "/", 1), strip(sp) >>) >>

\* merge_pair with a branch that keeps sp when op is blank.
merge_pair_keep_tail(op, sp) ==
    IF ~IsBlank(op) /\ ~IsBlank(sp)
    THEN << CatAll(<< strip(op), L(1, "/", 1), strip(sp) >>) >>
    ELSE IF ~IsBlank(op) THEN << strip(op) >>
    ELSE IF ~IsBlank(sp) THEN << strip(sp) >>
    ELSE << >>

\* What one (op, sp) pair appends to the merged list.
merge_pair(op, sp) ==
    IF ~IsBlank(op) /\ ~IsBlank(sp)
    THEN << CatAll(<< strip(op), L(1, "/", 1), strip(sp) >>) >>
    ELSE IF ~IsBlank(op) THEN << strip(op) >>
    ELSE << >>

\* The loop over zip(head, tail).
RECURSIVE merge(_, _)
merge(head, tail) ==
    IF head = << >> \/ tail = << >> THEN << >>
    ELSE merge_pair(Head(head), Head(tail)) \o merge(Tail(head), Tail(tail))

\* path.write_text(content): the whole file is replaced.
Write(fs, path, content) ==
    [p \in DOMAIN fs \cup {path} |-> IF p = path THEN content ELSE fs[p]]

\* ---------------------------------------------------------------- inputs
OpNames == << "daiin", "chedy", "shol", "chor", "shody", "qokedy", "cfhol", "cthar" >>

HistEntry(i) == << S(OpNames[((i - 1) % Len(OpNames)) + 1]), 40 - 3 * i >>

SeqDocs ==
    { EmptyDict } \cup
    { [k \in {"operator_histogram"} |-> [i \in 1..n |-> HistEntry(i)]] : n \in {0, 1, MaxHist} }

\* The fields a table holds together or not at all.
OtherFields == { "roots_count", "bud_count", "bud_state", "bud_colour" }

RowValues ==
    { [roots_count |-> S("1"), leaf_groups_count |-> g, leaf_pairs_count |-> p,
       bud_count |-> S("2"), bud_state |-> S("open"), bud_colour |-> S("red")] :
         g \in { E, S("3") }, p \in { E, S("2") } }

RowDomains ==
    { d \cup b : d \in SUBSET { "leaf_groups_count", "leaf_pairs_count" },
                 b \in { {}, OtherFields } }

PictRows == { [k \in d |-> v[k]] : d \in RowDomains, v \in RowValues }

\* The table's data rows; load_pict reads the first only.
PictTables ==
    { << >> } \cup { << r >> : r \in PictRows } \cup { << r, EmptyDict >> : r \in PictRows }

NoteHeads ==
    { << "decision", ":", " ", "7_STEPS_OPERATOR" >>,
      << " ", "Decision", ":", "7_STEPS_OPERATOR", " " >>,
      << "decision", ":", " ", "12_KEYS" >>,
      << "decision", ":", " ", "7_steps_operator" >>,
      << "7_STEPS_OPERATOR" >> }

NoteLines == { << >>, << "-", " ", "salt" >>, << " ", "sol", " ", "-" >> }

RECURSIVE SeqsUpTo(_, _)
SeqsUpTo(A, n) ==
    IF n = 0 THEN { << >> }
    ELSE LET shorter == SeqsUpTo(A, n - 1)
         IN  shorter \cup { Append(s, a) : s \in { t \in shorter : Len(t) = n - 1 }, a \in A }

Notes ==
    { [exists |-> FALSE, lines |-> << >>], [exists |-> TRUE, lines |-> << >>] } \cup
    { [exists |-> TRUE, lines |-> << h >> \o body] :
        h \in NoteHeads, body \in SeqsUpTo(NoteLines, MaxRationale) }

\* ------------------------------------------------------------------ main
Init ==
    /\ pc = "load_seq"
    /\ seq = EmptyDict
    /\ pict = EmptyDict
    /\ decision = UNKNOWN
    /\ rationale = << >>
    /\ txt12 = << >>
    /\ txt7 = << >>
    /\ dual_start_12 = -1
    /\ merged_12 = << >>
    /\ dual_start_7 = -1
    /\ merged_7 = << >>
    /\ files = EmptyDict

\* seq = load_seq(SEQ_PATH)
LoadSeq ==
    /\ pc = "load_seq"
    /\ \E doc \in SeqDocs : seq' = doc
    /\ pc' = "load_pict"
    /\ UNCHANGED << pict, decision, rationale, txt12, txt7,
                    dual_start_12, merged_12, dual_start_7, merged_7, files >>

\* open() or json.load() raises: the run ends.
LoadSeqFail ==
    /\ pc = "load_seq"
    /\ pc' = "load_error"
    /\ UNCHANGED << seq, pict, decision, rationale, txt12, txt7,
                    dual_start_12, merged_12, dual_start_7, merged_7, files >>

\* LoadPict with the long frame written before the decision note is loaded.
LoadPict_then_write ==
    /\ pc = "load_pict"
    /\ \/ pict' = EmptyDict
       \/ \E rows \in PictTables : pict' = load_pict(rows)
    /\ txt12' = make_12key(seq, pict', decision, rationale)
    /\ files' = Write(files, OUT_12, joined(txt12'))
    /\ pc' = "load_decision"
    /\ UNCHANGED << seq, decision, rationale, txt7,
                    dual_start_12, merged_12, dual_start_7, merged_7 >>

\* pict = load_pict(PICT_PATH) if PICT_PATH.exists() else {}
LoadPict ==
    /\ pc = "load_pict"
    /\ \/ pict' = EmptyDict                                 \* no file at PICT_PATH
       \/ \E rows \in PictTables : pict' = load_pict(rows)
    /\ pc' = "load_decision"
    /\ UNCHANGED << seq, decision, rationale, txt12, txt7,
                    dual_start_12, merged_12, dual_start_7, merged_7, files >>

\* The table is not UTF-8 or not CSV: open() or the reader raises.
LoadPictFail ==
    /\ pc = "load_pict"
    /\ pc' = "load_error"
    /\ UNCHANGED << seq, pict, decision, rationale, txt12, txt7,
                    dual_start_12, merged_12, dual_start_7, merged_7, files >>

\* decision, rationale = load_decision(DEC_PATH)
LoadDecision ==
    /\ pc = "load_decision"
    /\ \E note \in Notes :
         /\ decision' = load_decision(note)[1]
         /\ rationale' = load_decision(note)[2]
    /\ pc' = "render_12"
    /\ UNCHANGED << seq, pict, txt12, txt7,
                    dual_start_12, merged_12, dual_start_7, merged_7, files >>

\* The note is not UTF-8: read_text raises.
LoadDecisionFail ==
    /\ pc = "load_decision"
    /\ pc' = "load_error"
    /\ UNCHANGED << seq, pict, decision, rationale, txt12, txt7,
                    dual_start_12, merged_12, dual_start_7, merged_7, files >>

\* txt12 = make_12key(...); OUT_12.write_text("\n".join(txt12) + "\n")
Render12 ==
    /\ pc = "render_12"
    /\ txt12' = make_12key(seq, pict, decision, rationale)
    /\ files' = Write(files, OUT_12, joined(txt12'))
    /\ pc' = "render_7"
    /\ UNCHANGED << seq, pict, decision, rationale, txt7,
                    dual_start_12, merged_12, dual_start_7, merged_7 >>

\* Render7 with the long frame's head layer written before its marker is looked up.
Render7_then_lab ==
    /\ pc = "render_7"
    /\ txt7' = select_7step(seq, pict, decision, rationale)
    /\ files' = Write(Write(files, OUT_7, joined(txt7')), OUT_12_LAB,
                      strip_joined(head_of(txt12, Index(txt12, DualReading))))
    /\ pc' = "split_12"
    /\ UNCHANGED << seq, pict, decision, rationale, txt12,
                    dual_start_12, merged_12, dual_start_7, merged_7 >>

\* txt7 = make_7step(...) on either branch; OUT_7.write_text("\n".join(txt7) + "\n")
Render7 ==
    /\ pc = "render_7"
    /\ txt7' = select_7step(seq, pict, decision, rationale)
    /\ files' = Write(files, OUT_7, joined(txt7'))
    /\ pc' = "split_12"
    /\ UNCHANGED << seq, pict, decision, rationale, txt12,
                    dual_start_12, merged_12, dual_start_7, merged_7 >>

\* dual_start_12 = txt12.index("Dual Reading:"); a ValueError ends the run.
Split12 ==
    /\ pc = "split_12"
    /\ IF Index(txt12, DualReading) = -1
       THEN pc' = "marker_error" /\ UNCHANGED dual_start_12
       ELSE pc' = "lab_12" /\ dual_start_12' = Index(txt12, DualReading)
    /\ UNCHANGED << seq, pict, decision, rationale, txt12, txt7,
                    merged_12, dual_start_7, merged_7, files >>

\* OUT_12_LAB.write_text("\n".join(txt12[:dual_start_12]).strip() + "\n")
WriteLab12 ==
    /\ pc = "lab_12"
    /\ files' = Write(files, OUT_12_LAB, strip_joined(head_of(txt12, dual_start_12)))
    /\ pc' = "spir_12"
    /\ UNCHANGED << seq, pict, decision, rationale, txt12, txt7,
                    dual_start_12, merged_12, dual_start_7, merged_7 >>

\* OUT_12_SPIR.write_text("\n".join(txt12[dual_start_12+1:]).strip() + "\n")
WriteSpir12 ==
    /\ pc = "spir_12"
    /\ files' = Write(files, OUT_12_SPIR, strip_joined(tail_of(txt12, dual_start_12)))
    /\ pc' = "merge_12"
    /\ UNCHANGED << seq, pict, decision, rationale, txt12, txt7,
                    dual_start_12, merged_12, dual_start_7, merged_7 >>

\* The merge loop, then OUT_12_MERGE.write_text("\n".join(merged_12) + "\n")
Merge12 ==
    /\ pc = "merge_12"
    /\ merged_12' = merge(head_of(txt12, dual_start_12), tail_of(txt12, dual_start_12))
    /\ files' = Write(files, OUT_12_MERGE, joined(merged_12'))
    /\ pc' = "transl_12"
    /\ UNCHANGED << seq, pict, decision, rationale, txt12, txt7,
                    dual_start_12, dual_start_7, merged_7 >>

\* WriteTransl12 without its write.
WriteTransl12_skipped ==
    /\ pc = "transl_12"
    /\ pc' = "split_7"
    /\ UNCHANGED << seq, pict, decision, rationale, txt12, txt7,
                    dual_start_12, merged_12, dual_start_7, merged_7, files >>

\* OUT_12_TRANSL.write_text("\n".join(txt12) + "\n")
WriteTransl12 ==
    /\ pc = "transl_12"
    /\ files' = Write(files, OUT_12_TRANSL, joined(txt12))
    /\ pc' = "split_7"
    /\ UNCHANGED << seq, pict, decision, rationale, txt12, txt7,
                    dual_start_12, merged_12, dual_start_7, merged_7 >>

\* dual_start_7 = txt7.index("Spiritual Parallel:"); a ValueError ends the run.
Split7 ==
    /\ pc = "split_7"
    /\ IF Index(txt7, SpiritualParallel) = -1
       THEN pc' = "marker_error" /\ UNCHANGED dual_start_7
       ELSE pc' = "lab_7" /\ dual_start_7' = Index(txt7, SpiritualParallel)
    /\ UNCHANGED << seq, pict, decision, rationale, txt12, txt7,
                    dual_start_12, merged_12, merged_7, files >>

\* OUT_7_LAB.write_text("\n".join(txt7[:dual_start_7]).strip() + "\n")
WriteLab7 ==
    /\ pc = "lab_7"
    /\ files' = Write(files, OUT_7_LAB, strip_joined(head_of(txt7, dual_start_7)))
    /\ pc' = "spir_7"
    /\ UNCHANGED << seq, pict, decision, rationale, txt12, txt7,
                    dual_start_12, merged_12, dual_start_7, merged_7 >>

\* OUT_7_SPIR.write_text("\n".join(txt7[dual_start_7+1:]).strip() + "\n")
WriteSpir7 ==
    /\ pc = "spir_7"
    /\ files' = Write(files, OUT_7_SPIR, strip_joined(tail_of(txt7, dual_start_7)))
    /\ pc' = "merge_7"
    /\ UNCHANGED << seq, pict, decision, rationale, txt12, txt7,
                    dual_start_12, merged_12, dual_start_7, merged_7 >>

\* The merge loop, then OUT_7_MERGE.write_text("\n".join(merged_7) + "\n")
Merge7 ==
    /\ pc = "merge_7"
    /\ merged_7' = merge(head_of(txt7, dual_start_7), tail_of(txt7, dual_start_7))
    /\ files' = Write(files, OUT_7_MERGE, joined(merged_7'))
    /\ pc' = "transl_7"
    /\ UNCHANGED << seq, pict, decision, rationale, txt12, txt7,
                    dual_start_12, merged_12, dual_start_7 >>

\* OUT_7_TRANSL.write_text(...); the two prints end main.
WriteTransl7 ==
    /\ pc = "transl_7"
    /\ files' = Write(files, OUT_7_TRANSL, joined(txt7))
    /\ pc' = "done"
    /\ UNCHANGED << seq, pict, decision, rationale, txt12, txt7,
                    dual_start_12, merged_12, dual_start_7, merged_7 >>

Next ==
    \/ LoadSeq \/ LoadSeqFail
    \/ LoadPict \/ LoadPictFail
    \/ LoadDecision \/ LoadDecisionFail
    \/ Render12 \/ Render7
    \/ Split12 \/ WriteLab12 \/ WriteSpir12 \/ Merge12 \/ WriteTransl12
    \/ Split7 \/ WriteLab7 \/ WriteSpir7 \/ Merge7 \/ WriteTransl7

Spec == Init /\ [][Next]_vars

\* ---------------------------------------------------------------- claims
ShortFrameBuilt == txt7 # << >>

LongFrameBuilt == txt12 # << >>

Merged12Written == OUT_12_MERGE \in DOMAIN files

Merged7Written == OUT_7_MERGE \in DOMAIN files

\* The rationale items the notes can hold.
RationaleItems == UNION { Range(RationaleOf(<< ln >>)) : ln \in NoteLines }

\* Every rationale line a frame could carry.
RationaleLines ==
    { RationaleLine(q) : q \in SeqsUpTo(RationaleItems, MaxRationale + 1) \ { << >> } }

\* C1: once the short frame is built: with decision "7_STEPS_OPERATOR" and a
\* non-empty rationale, the short frame (and the long one) holds the line
\* "Decision rationale: " + the items joined with "; " in their order; with any
\* other decision the short frame holds no rationale line, whatever the rationale.
C1_ShortFrameRationale ==
    ShortFrameBuilt =>
        /\ (decision = SEVEN_STEPS /\ rationale # << >>) =>
               /\ RationaleLine(rationale) \in Range(txt7)
               /\ RationaleLine(rationale) \in Range(txt12)
        /\ decision # SEVEN_STEPS => Range(txt7) \cap RationaleLines = {}

C1_Witness ==
    /\ pc = "done"
    /\ decision = SEVEN_STEPS
    /\ rationale = << S("salt"), S("sol") >>
    /\ S("Decision rationale: salt; sol") \in Range(txt7)

\* C2: with a decision other than "7_STEPS_OPERATOR" the short frame carries a
\* comparative label: its lines differ from those of the short frame made for
\* decision "7_STEPS_OPERATOR" with no rationale from the same inputs.
C2_ComparativeLabelled ==
    (ShortFrameBuilt /\ decision # SEVEN_STEPS) =>
        txt7 # make_7step(seq, pict, SEVEN_STEPS, << >>)

\* The headings of the long frame's twelve operational steps.
OperationalSteps12 ==
    { S("Step 1 -- Vessel & Naming"), S("Step 2 -- Division"), S("Step 3 -- Dissolution"),
      S("Step 4 -- Distillation"), S("Step 5 -- Conjunction"),
      S("Step 6 -- Black Phase (Nigredo)"), S("Step 7 -- White Phase (Albedo)"),
      S("Step 8 -- Yellow Phase (Citrinitas)"), S("Step 9 -- Red Phase (Rubedo)"),
      S("Step 10 -- Planetary Governance"), S("Step 11 -- Circulation & Return"),
      S("Step 12 -- Seal & Completion") }

\* The twelve paragraphs of the dual reading: every second line from the third.
Allegorical12 == { Body12[2 * k + 1] : k \in 1..12 }

\* "1) Name & Bind -- ..." and "2) Divide & Portion -- ..." to "7) Perfect -- ...".
OperationalSteps7 == { Body7[1] } \cup { Body7[i] : i \in 10..15 }

\* "1) The name calls ..." to "7) Rubedo crowns ...".
Allegorical7 == { Body7[i] : i \in 3..9 }

LayersSeparated(txt, marker, operational, allegorical) ==
    \A i \in 1..Len(txt) :
        /\ txt[i] \in operational => i < Index(txt, marker) + 1
        /\ txt[i] \in allegorical => i > Index(txt, marker) + 1

\* C3: in both frames every operational step lies before the marker line and
\* every allegorical unit after it: no operational step follows the marker.
C3_LayersSeparated ==
    /\ LongFrameBuilt =>
         /\ OperationalSteps12 \cup Allegorical12 \subseteq Range(txt12)
         /\ LayersSeparated(txt12, DualReading, OperationalSteps12, Allegorical12)
    /\ ShortFrameBuilt =>
         /\ OperationalSteps7 \cup Allegorical7 \subseteq Range(txt7)
         /\ LayersSeparated(txt7, SpiritualParallel, OperationalSteps7, Allegorical7)

Occurrences(txt, x) == Cardinality({ i \in 1..Len(txt) : txt[i] = x })

Partitions(txt, marker, d) ==
    LET head == head_of(txt, d)
        tail == tail_of(txt, d)
    IN  /\ txt = head \o << marker >> \o tail
        /\ Len(head) + 1 + Len(tail) = Len(txt)
        /\ marker \notin Range(head)
        /\ marker \notin Range(tail)

\* C4: a built frame holds its marker line exactly once, and the split at the
\* index found is a partition: frame = head, marker, tail; neither layer holds
\* the marker.
C4_MarkerPartitions ==
    /\ LongFrameBuilt => Occurrences(txt12, DualReading) = 1
    /\ ShortFrameBuilt => Occurrences(txt7, SpiritualParallel) = 1
    /\ dual_start_12 # -1 => Partitions(txt12, DualReading, dual_start_12)
    /\ dual_start_7 # -1 => Partitions(txt7, SpiritualParallel, dual_start_7)

C4_Witness ==
    /\ pc = "done"
    /\ dual_start_12 = 6
    /\ dual_start_7 = 5
    /\ Len(tail_of(txt12, dual_start_12)) = 57
    /\ Len(tail_of(txt7, dual_start_7)) = 13

Separator == L(1, "/", 1)

PairsOf(head, tail) == 1..Min(Len(head), Len(tail))

\* No merged line is empty, blank or the separator alone.
NoEmptyMerged(merged) ==
    \A m \in Range(merged) : ~IsBlank(m) /\ strip(m) # strip(Separator)

PairsAsClaimed(head, tail) ==
    \A i \in PairsOf(head, tail) :
        LET op == head[i]
            sp == tail[i]
        IN  /\ (IsBlank(op) /\ IsBlank(sp)) => merge_pair(op, sp) = << >>
            /\ (~IsBlank(op) /\ IsBlank(sp)) => merge_pair(op, sp) = << op >>
            /\ (~IsBlank(op) /\ ~IsBlank(sp)) =>
                   merge_pair(op, sp) = << CatAll(<< op, Separator, sp >>) >>

PairsTrimmed(head, tail) ==
    \A i \in PairsOf(head, tail) :
        LET op == head[i]
            sp == tail[i]
        IN  /\ (IsBlank(op) /\ IsBlank(sp)) => merge_pair(op, sp) = << >>
            /\ (~IsBlank(op) /\ IsBlank(sp)) =>
                   /\ merge_pair(op, sp) = << strip(op) >>
                   /\ strip(op) = op
            /\ (~IsBlank(op) /\ ~IsBlank(sp)) =>
                   merge_pair(op, sp) = << CatAll(<< strip(op), Separator, strip(sp) >>) >>

\* C5 as stated: a blank/blank pair gives no merged line, a non-blank head with
\* a blank tail gives the head line unchanged, two non-blank lines give
\* head + " / " + tail.
C5_PairsAsClaimed ==
    /\ Merged12Written =>
         /\ NoEmptyMerged(merged_12)
         /\ PairsAsClaimed(head_of(txt12, dual_start_12), tail_of(txt12, dual_start_12))
    /\ Merged7Written =>
         /\ NoEmptyMerged(merged_7)
         /\ PairsAsClaimed(head_of(txt7, dual_start_7), tail_of(txt7, dual_start_7))

\* C5 as amended: a blank/blank pair gives no merged line (the merged lines are
\* never empty nor the separator alone); a non-blank head with a blank tail gives
\* head.strip(), which in the frames built is the head line unchanged; two
\* non-blank lines give head.strip() + " / " + tail.strip().
C5_PairsTrimmed ==
    /\ Merged12Written =>
         /\ NoEmptyMerged(merged_12)
         /\ PairsTrimmed(head_of(txt12, dual_start_12), tail_of(txt12, dual_start_12))
    /\ Merged7Written =>
         /\ NoEmptyMerged(merged_7)
         /\ PairsTrimmed(head_of(txt7, dual_start_7), tail_of(txt7, dual_start_7))

\* The snapshot line ends in a blank (no frequent operators) and is merged
\* without it; the rationale line faces a blank line and stands alone.
C5_Witness ==
    /\ Merged12Written
    /\ txt12[3].r = 1
    /\ merged_12[3] = CatAll(<< strip(txt12[3]), Separator, txt12[dual_start_12 + 4] >>)
    /\ merged_12[3] # CatAll(<< txt12[3], Separator, txt12[dual_start_12 + 4] >>)
    /\ rationale # << >>
    /\ IsBlank(txt12[dual_start_12 + 5])
    /\ merged_12[4] = RationaleLine(rationale)

Slot(p, key) == IF key \in DOMAIN p THEN p[key] ELSE Q

PictLoaded == pc \notin { "load_seq", "load_pict" }

\* C6 as stated: every slot is the value of its first candidate field present
\* in the summary, whatever that value, and "?" when none is present.
C6_FirstPresent ==
    PictLoaded =>
        phrase_counts(pict) =
            << Slot(pict, "roots_count"),
               IF "leaf_groups_count" \in DOMAIN pict THEN pict["leaf_groups_count"]
               ELSE Slot(pict, "leaf_pairs_count"),
               Slot(pict, "bud_count"), Slot(pict, "bud_state"), Slot(pict, "bud_colour") >>

NonEmptySlots(p, keys) == { k \in keys : k \in DOMAIN p /\ p[k] # E }

\* C6 as amended: roots, buds, bud state and bud colour are the field's value when
\* the field is present and "?" when it is not; leaves is leaf_groups_count when
\* that field is present and not empty, else leaf_pairs_count when that one is
\* present and not empty, else "?".
C6_FirstNonEmpty ==
    PictLoaded =>
        LET c == phrase_counts(pict)
            full == NonEmptySlots(pict, { "leaf_groups_count", "leaf_pairs_count" })
        IN  /\ c[1] = Slot(pict, "roots_count")
            /\ "leaf_groups_count" \in full => c[2] = pict["leaf_groups_count"]
            /\ full = { "leaf_pairs_count" } => c[2] = pict["leaf_pairs_count"]
            /\ full = {} => c[2] = Q
            /\ c[3] = Slot(pict, "bud_count")
            /\ c[4] = Slot(pict, "bud_state")
            /\ c[5] = Slot(pict, "bud_colour")

\* leaf_groups_count is present and empty: the snapshot shows leaf_pairs_count.
C6_Witness ==
    /\ LongFrameBuilt
    /\ DOMAIN seq = {}
    /\ DOMAIN pict = { "leaf_groups_count", "leaf_pairs_count" }
    /\ pict["leaf_groups_count"] = E
    /\ pict["leaf_pairs_count"] = S("2")
    /\ phrase_counts(pict)[2] = S("2")
    /\ txt12[3] = L(0, "Snapshot: roots=?, leaves~2, buds=? (?/?); frequent ops:", 1)

Derived12 == { OUT_12_LAB, OUT_12_SPIR, OUT_12_MERGE, OUT_12_TRANSL }

Derived7 == { OUT_7_LAB, OUT_7_SPIR, OUT_7_MERGE, OUT_7_TRANSL }

Written == DOMAIN files

\* C7 as stated: where a frame's marker is looked up (the only place the run can
\* end on a missing marker) and after such an end, no artifact of that frame is on
\* storage: not its full text, head layer, tail layer, merged or translation file;
\* the artifacts of the frame completed before are.
C7_NothingOfFrameBeforeLookup ==
    /\ pc = "split_12" => Written \cap ({ OUT_12 } \cup Derived12) = {}
    /\ pc = "split_7" =>
         /\ Written \cap ({ OUT_7 } \cup Derived7) = {}
         /\ { OUT_12 } \cup Derived12 \subseteq Written
    /\ (pc = "marker_error" /\ dual_start_12 = -1) =>
         Written \cap ({ OUT_12 } \cup Derived12) = {}
    /\ (pc = "marker_error" /\ dual_start_12 # -1) =>
         Written \cap ({ OUT_7 } \cup Derived7) = {}

\* C7 as amended: a frame's marker is looked up before any derived artifact of
\* that frame (head layer, tail layer, merged, translation) is written, so a run
\* ending on a missing marker leaves none of them; the full texts of both frames
\* are on storage by then, and at the short frame's lookup so are all the derived
\* artifacts of the long frame.
C7_LookupBeforeDerived ==
    /\ Written \cap Derived12 # {} => dual_start_12 # -1
    /\ Written \cap Derived7 # {} => dual_start_7 # -1
    /\ pc = "split_12" =>
         /\ Written \cap (Derived12 \cup Derived7) = {}
         /\ { OUT_12, OUT_7 } \subseteq Written
    /\ pc = "split_7" =>
         /\ Written \cap Derived7 = {}
         /\ { OUT_12, OUT_7 } \cup Derived12 \subseteq Written
    \* Split12 and Split7 end the run at "marker_error" without a write.
    /\ (pc = "marker_error" /\ dual_start_12 = -1) => Written = { OUT_12, OUT_7 }
    /\ (pc = "marker_error" /\ dual_start_12 # -1) =>
         Written = { OUT_12, OUT_7 } \cup Derived12

C7_Witness ==
    /\ pc = "lab_7"
    /\ dual_start_7 # -1
    /\ Written = { OUT_12, OUT_7 } \cup Derived12

Loading == { "load_seq", "load_pict", "load_decision", "load_error" }

\* C8: no file is written while an input is still to be loaded, and a run that
\* ends on a load that fails has written nothing.
C8_LoadsBeforeWrites ==
    /\ pc \in Loading => Written = {}
    /\ Written # {} => pc \notin Loading

\* The sequence document was loaded, a later load failed: nothing is written.
C8_Witness ==
    /\ pc = "load_error"
    /\ "operator_histogram" \in DOMAIN seq
    /\ Written = {}

\* C9 as stated: a completed run has written exactly eight files.
C9_EightFiles == pc = "done" => Cardinality(Written) = 8

\* C9 as amended: a completed run has written exactly ten files: for each frame
\* its full text, its head layer, its tail layer, its merged layer and a
\* translation file that is a copy of the full text.
C9_TenFiles ==
    pc = "done" =>
        /\ Written = { OUT_12, OUT_7 } \cup Derived12 \cup Derived7
        /\ Cardinality(Written) = 10
        /\ files[OUT_12_TRANSL] = files[OUT_12]
        /\ files[OUT_7_TRANSL] = files[OUT_7]
        /\ files[OUT_12] = txt12
        /\ files[OUT_7] = txt7

C9_Witness ==
    /\ pc = "done"
    /\ Cardinality(Written) = 10
    /\ files[OUT_12_LAB] # files[OUT_12_SPIR]

\* The positions whose head line is not blank, among the paired ones.
Kept(head, tail) == { i \in PairsOf(head, tail) : ~IsBlank(head[i]) }

\* The tail positions whose line is not blank and faces a blank head line or none.
Lost(head, tail) ==
    { i \in 1..Len(tail) : ~IsBlank(tail[i]) /\ (i > Len(head) \/ IsBlank(head[i])) }

MergeShape(head, tail, merged) ==
    LET kept == Kept(head, tail)
        \* The k-th kept position.
        at   == [k \in 1..Cardinality(kept) |->
                   CHOOSE i \in kept : Cardinality({ j \in kept : j < i }) = k - 1]
        lost == { strip(tail[i]) : i \in Lost(head, tail) }
    IN  /\ Len(merged) = Cardinality(kept)
        /\ \A k \in 1..Len(merged) :
             /\ merged[k] \in { strip(head[at[k]]),
                                 CatAll(<< strip(head[at[k]]), Separator, strip(tail[at[k]]) >>) }
             /\ merged[k] \notin lost
             /\ LET joint == Cat(strip(head[at[k]]), Separator)
                IN  \A t \in lost : merged[k] # Cat(joint, t)

\* C10: the merged lines are as many as the non-blank head lines among the
\* first min(len(head), len(tail)) positions, one per such position in head
\* order; a non-blank tail line whose head line is blank, or that lies at or
\* beyond len(head), is in no merged line.
C10_MergeShape ==
    /\ Merged12Written =>
         MergeShape(head_of(txt12, dual_start_12), tail_of(txt12, dual_start_12), merged_12)
    /\ Merged7Written =>
         MergeShape(head_of(txt7, dual_start_7), tail_of(txt7, dual_start_7), merged_7)

\* With a rationale line the long frame's fifth head line is blank and faces a
\* paragraph, which is lost, as are the 51 tail lines beyond the head.
C10_Witness ==
    /\ Merged12Written
    /\ Len(head_of(txt12, dual_start_12)) = 6
    /\ 5 \in Lost(head_of(txt12, dual_start_12), tail_of(txt12, dual_start_12))
    /\ Cardinality(Lost(head_of(txt12, dual_start_12), tail_of(txt12, dual_start_12))) > 1
    /\ Len(merged_12) = 5

====
